---- MODULE Spec2Model ----
(***************************************************************************)
(* KarigarWorkflow: the LangGraph state graph built in                     *)
(* karigar/orchestrators/workflow.py over the KarigarState schema          *)
(* (karigar/schemas/state.py), the five agents it registers as nodes, and  *)
(* the transition policy should_continue.                                  *)
(*                                                                         *)
(* A Python dict is a function from a set of keys (strings) to values.     *)
(* A key that is not in the dict is not in the DOMAIN.  Python's None at a *)
(* string-valued key is the string "None".                                 *)
(***************************************************************************)
EXTENDS Integers, Sequences, FiniteSets, TLC

VARIABLES
    impl,     \* what the five node callables are: the repository's agents or
              \* any callable meeting the stage contract
    llm,      \* IntakeAgent.llm is set (OPENAI_API_KEY present at construction)
    input,    \* the initial_state dict the caller passes to run
    state,    \* the graph's channel values: the workflow state
    pc,       \* "init", the node about to be invoked, "end" (run returned),
              \* "raised" (run raised to its caller)
    trace,    \* the stage invocations of this run, in order
    running,  \* the stages whose callable has been entered and has not returned
    suspended, \* the stages whose coroutine is suspended at an await
    call,     \* one call of an agent's process made directly, outside a run:
              \* the agent, the state passed, how far it is, what it returns
    sessions, \* the number of database sessions open (got and not yet closed)
    runs,     \* concurrent requests: for each its initial_state, the node it is
              \* at and the reference to its workflow state
    heap,     \* the workflow state objects of the concurrent requests
    db,       \* the database: the rows of its tables
    procs     \* the invocations of an agent's process running on the database,
              \* each with the state it was passed, the statement it is at
              \* and what it has read

runVars == <<impl, llm, input, state, pc, trace>>
execVars == <<running, suspended>>
callVars == <<call, sessions>>
poolVars == <<runs, heap>>
dbVars == <<db, procs>>

vars == <<runVars, execVars, callVars, poolVars, dbVars>>

\* A bound of the model: the number of stage invocations after which the model
\* stops extending a run.  No run of the graph as written comes near it.
MaxSteps == 8

----------------------------------------------------------------------------
\* Dicts

EmptyDict == [k \in {} |-> "None"]

Has(d, k) == k \in DOMAIN d

\* dict.get(k, default)
Get(d, k, default) == IF k \in DOMAIN d THEN d[k] ELSE default

\* truthiness of a string-valued entry: None and "" are falsy
Falsy(v) == v \in {"None", ""}

----------------------------------------------------------------------------
\* The state schema and the graph

Stages == {"intake", "supplier", "commit", "sales", "cash"}

\* KarigarState: the keys of the TypedDict are the channels of the graph
SchemaKeys ==
    {"messages", "artisan_id", "material_request", "supplier_quotes",
     "selected_quote", "order_details", "store_url", "status"}

\* A message after add_messages has coerced it: {"role": "user", ...} becomes
\* a HumanMessage with the same content.
CoerceMessage(m) ==
    IF m.type = "dict" THEN [type |-> "HumanMessage", content |-> m.content] ELSE m

\* messages: Annotated[list, add_messages]: the reducer of the messages
\* channel appends the coerced new messages to the ones it holds.
add_messages(left, right) ==
    left \o [i \in 1..Len(right) |-> CoerceMessage(right[i])]

\* A mutant of ApplyWrites: the dict is rebuilt from the update, so keys the
\* update does not name are lost.
ApplyWritesReplacing(st, upd) ==
    [k \in (DOMAIN upd \cap SchemaKeys) \cup {"messages"} |->
        IF k = "messages"
        THEN add_messages(<<>>, Get(upd, "messages", <<>>))
        ELSE upd[k]]

\* StateGraph(KarigarState): a dict written to the graph (the input of run, or
\* the partial update a node returns) is applied channel by channel.  Keys that
\* are not channels of the schema are dropped; "messages" goes through its
\* reducer; every other channel keeps the last value written.
ApplyWrites(st, upd) ==
    [k \in DOMAIN st \cup (DOMAIN upd \cap SchemaKeys) |->
        IF k \in DOMAIN upd /\ k \in SchemaKeys
        THEN IF k = "messages"
             THEN add_messages(Get(st, "messages", <<>>), upd[k])
             ELSE upd[k]
        ELSE st[k]]

\* The channels before any write: the messages channel holds list()
EmptyChannels == [k \in {"messages"} |-> <<>>]

\* A mutant of should_continue: "sales_skipped" is not recognised.
should_continue_no_skip(st) ==
    LET status == Get(st, "status", "None") IN
    IF status = "error" THEN "end"
    ELSE IF status = "intake_complete" THEN "supplier"
    ELSE IF status = "supplier_search_complete" THEN "commit"
    ELSE IF status = "commit_complete" THEN "sales"
    ELSE IF status = "sales_complete" THEN "cash"
    ELSE IF status = "cash_complete" THEN "end"
    ELSE "end"

\* A mutant of should_continue: the error check is missing and a failed intake
\* is routed like a completed one.
should_continue_error_goes_on(st) ==
    LET status == Get(st, "status", "None") IN
    IF status \in {"intake_complete", "error"} THEN "supplier"
    ELSE IF status = "supplier_search_complete" THEN "commit"
    ELSE IF status = "commit_complete" THEN "sales"
    ELSE IF status \in {"sales_complete", "sales_skipped"} THEN "cash"
    ELSE IF status = "cash_complete" THEN "end"
    ELSE "end"

\* A mutant of should_continue: it has no branch for "intake_complete".
should_continue_no_intake(st) ==
    LET status == Get(st, "status", "None") IN
    IF status = "error" THEN "end"
    ELSE IF status = "supplier_search_complete" THEN "commit"
    ELSE IF status = "commit_complete" THEN "sales"
    ELSE IF status \in {"sales_complete", "sales_skipped"} THEN "cash"
    ELSE IF status = "cash_complete" THEN "end"
    ELSE "end"

\* should_continue(state)
should_continue(st) ==
    LET status == Get(st, "status", "None") IN
    IF status = "error" THEN "end"
    ELSE IF status = "intake_complete" THEN "supplier"
    ELSE IF status = "supplier_search_complete" THEN "commit"
    ELSE IF status = "commit_complete" THEN "sales"
    ELSE IF status \in {"sales_complete", "sales_skipped"} THEN "cash"
    ELSE IF status = "cash_complete" THEN "end"
    ELSE "end"

\* A mutant of PathMap: the edge out of sales names sales as the target of
\* "cash".
PathMapSalesLoop(stage) ==
    CASE stage = "intake"   -> [supplier |-> "supplier", end |-> "end"]
      [] stage = "supplier" -> [commit |-> "commit", end |-> "end"]
      [] stage = "commit"   -> [sales |-> "sales", end |-> "end"]
      [] stage = "sales"    -> [cash |-> "sales", end |-> "end"]
      [] stage = "cash"     -> [end |-> "end"]

\* A mutant of PathMap: the edge out of cash names cash as the target of "end".
PathMapCashLoop(stage) ==
    CASE stage = "intake"   -> [supplier |-> "supplier", end |-> "end"]
      [] stage = "supplier" -> [commit |-> "commit", end |-> "end"]
      [] stage = "commit"   -> [sales |-> "sales", end |-> "end"]
      [] stage = "sales"    -> [cash |-> "cash", end |-> "end"]
      [] stage = "cash"     -> [end |-> "cash"]

\* A mutant of PathMap: the edge out of sales ends the run on "cash".
PathMapSalesEnds(stage) ==
    CASE stage = "intake"   -> [supplier |-> "supplier", end |-> "end"]
      [] stage = "supplier" -> [commit |-> "commit", end |-> "end"]
      [] stage = "commit"   -> [sales |-> "sales", end |-> "end"]
      [] stage = "sales"    -> [cash |-> "end", end |-> "end"]
      [] stage = "cash"     -> [end |-> "end"]

\* A mutant of PathMap: the edge out of commit names cash as the target of
\* "sales".
PathMapCommitToCash(stage) ==
    CASE stage = "intake"   -> [supplier |-> "supplier", end |-> "end"]
      [] stage = "supplier" -> [commit |-> "commit", end |-> "end"]
      [] stage = "commit"   -> [sales |-> "cash", end |-> "end"]
      [] stage = "sales"    -> [cash |-> "cash", end |-> "end"]
      [] stage = "cash"     -> [end |-> "end"]

\* A mutant of PathMap: the edge out of intake has no target for "end".
PathMapIntakeNoEnd(stage) ==
    CASE stage = "intake"   -> [supplier |-> "supplier"]
      [] stage = "supplier" -> [commit |-> "commit", end |-> "end"]
      [] stage = "commit"   -> [sales |-> "sales", end |-> "end"]
      [] stage = "sales"    -> [cash |-> "cash", end |-> "end"]
      [] stage = "cash"     -> [end |-> "end"]

\* add_conditional_edges(stage, should_continue, path map)
PathMap(stage) ==
    CASE stage = "intake"   -> [supplier |-> "supplier", end |-> "end"]
      [] stage = "supplier" -> [commit |-> "commit", end |-> "end"]
      [] stage = "commit"   -> [sales |-> "sales", end |-> "end"]
      [] stage = "sales"    -> [cash |-> "cash", end |-> "end"]
      [] stage = "cash"     -> [end |-> "end"]

\* A mutant of EntryPoint: the first node is chosen by the policy as well.
EntryPointByPolicy(inp) == should_continue(inp)

\* add_edge(START, "intake"): the first node does not depend on the input
EntryPoint(inp) == "intake"

\* The node after `stage`, given the state after its update was applied: the
\* policy's answer looked up in the stage's path map.  An answer that is not a
\* key of the path map makes the graph raise.
Route(stage, st) ==
    LET r == should_continue(st) IN
    IF r \in DOMAIN PathMap(stage) THEN PathMap(stage)[r] ELSE "raised"

----------------------------------------------------------------------------
\* The partial updates the agents return

\* {"status": "error", "error": msg}
Err(msg) == [status |-> "error", error |-> msg]

\* The ids the database assigns to the rows an agent inserts
RequestIds == {"R1"}
OrderIds == {"O1"}
StoreIds == {"ST1"}

\* SupplierQuote rows as the dicts SupplierAgent puts in the state
Quote1 == [id |-> "Q1", supplier_id |-> "S1", total_price |-> 100, delivery_charge |-> 30]
Quote2 == [id |-> "Q2", supplier_id |-> "S2", total_price |-> 110, delivery_charge |-> 10]
QuoteLists == {<<Quote1>>, <<Quote1, Quote2>>}

\* The words of a message's text
NoText == <<>>
Materials == <<"cement", "bricks", "steel", "sand", "tiles", "wood", "paint">>

IsNumber(w) == w \in {"0", "50"}
NumberOf(w) == IF w = "50" THEN 50 ELSE 0

\* The location regex of _fallback_extract, "in" and then letters and blanks:
\* the words that follow the first "in" that has a word (no number) after it,
\* up to the next number or the end of the text.  None is the empty text.
LocationIn(text) ==
    LET ins == {i \in 1..(Len(text) - 1) : text[i] = "in" /\ ~IsNumber(text[i + 1])}
    IN IF ins = {} THEN NoText
       ELSE LET i == CHOOSE i1 \in ins : \A i2 \in ins : i1 <= i2
                ends == {j \in (i + 1)..Len(text) :
                            /\ \A k \in (i + 1)..j : ~IsNumber(text[k])
                            /\ j = Len(text) \/ IsNumber(text[j + 1])}
            IN SubSeq(text, i + 1, CHOOSE j \in ends : TRUE)

\* A mutant of FallbackExtract: the quantity is the last number in the text.
FallbackExtractLastNumber(text) ==
    LET words == {text[i] : i \in 1..Len(text)}
        named == {j \in 1..Len(Materials) : Materials[j] \in words}
        nums  == {i \in 1..Len(text) : IsNumber(text[i])}
    IN [material |-> IF named = {} THEN "None"
                     ELSE Materials[CHOOSE j \in named : \A j2 \in named : j <= j2],
        quantity |-> IF nums = {} THEN 0
                     ELSE NumberOf(text[CHOOSE i \in nums : \A i2 \in nums : i >= i2]),
        location |-> LocationIn(text)]

\* IntakeAgent._fallback_extract: the first material of the list that the text
\* names, the first number in the text and the location; None (0 for the
\* quantity) when there is none.
FallbackExtract(text) ==
    LET words == {text[i] : i \in 1..Len(text)}
        named == {j \in 1..Len(Materials) : Materials[j] \in words}
        nums  == {i \in 1..Len(text) : IsNumber(text[i])}
    IN [material |-> IF named = {} THEN "None"
                     ELSE Materials[CHOOSE j \in named : \A j2 \in named : j <= j2],
        quantity |-> IF nums = {} THEN 0
                     ELSE NumberOf(text[CHOOSE i \in nums : \A i2 \in nums : i <= i2]),
        location |-> LocationIn(text)]

\* What the LLM's answer can parse to
LLMExtractions ==
    {[material |-> m, quantity |-> q, location |-> NoText] :
        m \in {"None", "bricks"}, q \in {0, 50}}

\* A mutant of IntakeSuccess: the artisan's phone is the id whether or not the
\* state has an artisan_id.
IntakeSuccessPhoneId(st, md, rid) ==
    [material_request |-> [material |-> md.material, quantity |-> md.quantity,
                           unit |-> "units", budget |-> 0,
                           timeline |-> "ASAP", location |-> md.location],
     request_id |-> rid,
     artisan_id |-> Get(st, "artisan_phone", "default-artisan"),
     status |-> "intake_complete"]

\* IntakeAgent.process, the successful return
IntakeSuccess(st, md, rid) ==
    LET given == Get(st, "artisan_id", "None")
        artisan_id == IF Falsy(given)
                      THEN Get(st, "artisan_phone", "default-artisan")
                      ELSE given
    IN [material_request |-> [material |-> md.material, quantity |-> md.quantity,
                              unit |-> "units", budget |-> 0,
                              timeline |-> "ASAP", location |-> md.location],
        request_id |-> rid,
        artisan_id |-> artisan_id,
        status |-> "intake_complete"]

\* The text of the last message of the state, empty when there is none
UserInput(st) ==
    LET messages == Get(st, "messages", <<>>)
    IN IF messages = <<>> THEN NoText ELSE messages[Len(messages)].content

\* The extracted data process can go on with: the LLM's answer, or the fallback
\* extraction when there is no LLM
Extractions(st, hasLLM) ==
    IF hasLLM THEN LLMExtractions ELSE {FallbackExtract(UserInput(st))}

\* The validation of the required fields: material and quantity are truthy
Valid(md) == ~Falsy(md.material) /\ md.quantity # 0

\* IntakeAgent.process, the returns before it opens its session: no input, the
\* LLM or the parse of its answer failed, a required field is missing, or
\* another statement raised (the outer handler)
IntakeEarly(st, hasLLM) ==
    IF UserInput(st) = NoText THEN {Err("No input provided")}
    ELSE (IF hasLLM THEN {Err("e"), Err("Failed to parse material request")} ELSE {})
         \cup {Err("Material type not specified") :
                  md \in {m \in Extractions(st, hasLLM) : Falsy(m.material)}}
         \cup {Err("Quantity not specified") :
                  md \in {m \in Extractions(st, hasLLM) : ~Falsy(m.material) /\ ~Valid(m)}}
         \cup {Err("e") : md \in {m \in Extractions(st, hasLLM) : Valid(m)}}

\* IntakeAgent.process, the returns from inside the try that holds its session:
\* the rows were saved, or the database raised
IntakeInSession(st, hasLLM) ==
    IF UserInput(st) = NoText THEN {}
    ELSE UNION {{Err("Database error: e")} \cup {IntakeSuccess(st, md, rid) : rid \in RequestIds} :
                   md \in {m \in Extractions(st, hasLLM) : Valid(m)}}

\* IntakeAgent.process(state): every partial update it can return for this
\* state, over what the LLM and the database may do
IntakeProcess(st, hasLLM) == IntakeEarly(st, hasLLM) \cup IntakeInSession(st, hasLLM)

\* SupplierAgent.process, the successful return
SupplierSuccess(quotes) ==
    [supplier_quotes |-> quotes, status |-> "supplier_search_complete"]

\* A mutant of SupplierHasRequest: material_request is not looked at.
SupplierHasRequestIdOnly(st) == ~Falsy(Get(st, "request_id", "None"))

\* SupplierAgent.process reads what it needs from the state
SupplierHasRequest(st) ==
    ~Falsy(Get(st, "request_id", "None")) /\ Has(st, "material_request")

\* SupplierAgent.process, the returns that do not pass QuoteGeneratorTool's
\* session: the request is missing, the search found nothing, or a statement
\* raised (the outer handler)
SupplierEarly(st) ==
    IF ~SupplierHasRequest(st)
    THEN {Err("Missing material request details.")}
    ELSE {Err("No suppliers found for the material and location."), Err("e")}

\* SupplierAgent.process, the returns after generate_quotes_for_request, which
\* holds a session while it runs: it returned quotes, or (the database raised)
\* an empty list
SupplierInSession(st) ==
    IF ~SupplierHasRequest(st) THEN {}
    ELSE {Err("Failed to generate quotes.")} \cup {SupplierSuccess(q) : q \in QuoteLists}

\* SupplierAgent.process(state)
SupplierProcess(st) == SupplierEarly(st) \cup SupplierInSession(st)

\* q["total_price"] + q["delivery_charge"]
Cost(q) == q.total_price + q.delivery_charge

\* A mutant of MinQuote: of the cheapest quotes the last one is taken.
MinQuoteLastOnTies(quotes) ==
    LET best == {i \in 1..Len(quotes) : \A j \in 1..Len(quotes) : Cost(quotes[i]) <= Cost(quotes[j])}
    IN quotes[CHOOSE i \in best : \A j \in best : i >= j]

\* min(quotes, key=total_price + delivery_charge): the first cheapest quote
MinQuote(quotes) ==
    LET best == {i \in 1..Len(quotes) : \A j \in 1..Len(quotes) : Cost(quotes[i]) <= Cost(quotes[j])}
    IN quotes[CHOOSE i \in best : \A j \in best : i <= j]

\* CommitAgent.process, the successful return
CommitSuccess(sel, oid) ==
    [order_id |-> oid,
     selected_quote |-> sel,
     order_details |-> [total_amount |-> Cost(sel), status |-> "confirmed"],
     payment_info |-> "package",
     po_path |-> "po.pdf",
     status |-> "commit_complete"]

\* CommitAgent.process, the returns before it opens its session: there are no
\* quotes, or a statement raised (the outer handler)
CommitEarly(st) ==
    IF Get(st, "supplier_quotes", <<>>) = <<>>
    THEN {Err("No supplier quotes available to commit.")}
    ELSE {Err("e")}

\* CommitAgent.process, the returns from inside the try that holds its session:
\* a row is missing, the database or the PO file raised, or the order was saved
\* (which takes the rows of the request and of the artisan)
CommitInSession(st) ==
    LET quotes == Get(st, "supplier_quotes", <<>>)
        request_id == Get(st, "request_id", "None")
        artisan_id == Get(st, "artisan_id", "None")
    IN IF quotes = <<>> THEN {}
       ELSE {Err("DB/File Error: e"),
             Err("Could not retrieve full order details from DB.")}
            \cup IF Falsy(request_id) \/ Falsy(artisan_id) THEN {}
                 ELSE {CommitSuccess(MinQuote(quotes), oid) : oid \in OrderIds}

\* CommitAgent.process(state)
CommitProcess(st) == CommitEarly(st) \cup CommitInSession(st)

\* SalesAgent.process, the return for an artisan that has a store already
SalesExisting(url) == [store_url |-> url, status |-> "sales_skipped"]

\* SalesAgent.process, the return after it created the store
SalesSuccess(sid, url) == [store_id |-> sid, store_url |-> url, status |-> "sales_complete"]

\* SalesAgent.process has nothing to make a store for
SalesNothingToDo(st) ==
    Falsy(Get(st, "artisan_id", "None")) \/ ~Has(st, "order_details")

\* SalesAgent.process, the returns before it opens its session: the skip, or a
\* statement raised (the outer handler)
SalesEarly(st) ==
    IF SalesNothingToDo(st) THEN {[status |-> "sales_skipped"]} ELSE {Err("e")}

\* SalesAgent.process, the returns from inside the try that holds its session
SalesInSession(st) ==
    IF SalesNothingToDo(st) THEN {}
    ELSE {Err("DB/File Error: e"), Err("Artisan not found."), SalesExisting("url")}
         \cup {SalesSuccess(sid, "url") : sid \in StoreIds}

\* SalesAgent.process(state)
SalesProcess(st) == SalesEarly(st) \cup SalesInSession(st)

\* CashAgent.process has nothing to record
CashNothingToDo(st) ==
    Falsy(Get(st, "artisan_id", "None")) \/ Falsy(Get(st, "order_id", "None"))
    \/ ~Has(st, "order_details")

\* A mutant of CashEarly: the skip returns an empty update.
CashEarlyNoStatus(st) ==
    IF CashNothingToDo(st) THEN {EmptyDict} ELSE {Err("e")}

\* CashAgent.process, the returns before it opens its session: the skip, or a
\* statement raised (the outer handler)
CashEarly(st) ==
    IF CashNothingToDo(st) THEN {[status |-> "cash_skipped"]} ELSE {Err("e")}

\* CashAgent.process, the returns from inside the try that holds its session
CashInSession(st) ==
    IF CashNothingToDo(st) THEN {} ELSE {Err("DB Error: e"), [status |-> "cash_complete"]}

\* CashAgent.process(state)
CashProcess(st) == CashEarly(st) \cup CashInSession(st)

\* The node callables registered in _build_graph
AgentReturns(stage, st, hasLLM) ==
    CASE stage = "intake"   -> IntakeProcess(st, hasLLM)
      [] stage = "supplier" -> SupplierProcess(st)
      [] stage = "commit"   -> CommitProcess(st)
      [] stage = "sales"    -> SalesProcess(st)
      [] stage = "cash"     -> CashProcess(st)

\* process of the agent of `stage`, the returns on the paths that open no
\* database session
EarlyReturns(stage, st, hasLLM) ==
    CASE stage = "intake"   -> IntakeEarly(st, hasLLM)
      [] stage = "supplier" -> SupplierEarly(st)
      [] stage = "commit"   -> CommitEarly(st)
      [] stage = "sales"    -> SalesEarly(st)
      [] stage = "cash"     -> CashEarly(st)

\* process of the agent of `stage`, the returns on the paths that open a
\* database session, get_session() and then try ... finally session.close()
SessionReturns(stage, st, hasLLM) ==
    CASE stage = "intake"   -> IntakeInSession(st, hasLLM)
      [] stage = "supplier" -> SupplierInSession(st)
      [] stage = "commit"   -> CommitInSession(st)
      [] stage = "sales"    -> SalesInSession(st)
      [] stage = "cash"     -> CashInSession(st)

\* The statuses a stage may report
StageStatuses ==
    {"error", "intake_complete", "supplier_search_complete", "commit_complete",
     "sales_complete", "sales_skipped", "cash_complete", "cash_skipped"}

\* A stage as the orchestrator sees it: a callable that returns a partial
\* update.  Any status, with or without the payload of the stage, and the empty
\* update.
ContractReturns(stage) ==
    {EmptyDict, Err("stage failed")}
    \cup {[status |-> s] : s \in StageStatuses}
    \cup CASE stage = "intake" ->
               {IntakeSuccess([artisan_id |-> "A1"],
                              [material |-> "cement", quantity |-> 50, location |-> NoText],
                              "R1")}
           [] stage = "supplier" -> {SupplierSuccess(<<Quote1, Quote2>>)}
           [] stage = "commit"   -> {CommitSuccess(Quote2, "O1")}
           [] stage = "sales"    -> {SalesSuccess("ST1", "url"), SalesExisting("url")}
           [] stage = "cash"     -> {}

\* What invoking the node `stage` on the state can return
NodeReturns(stage, st) ==
    IF impl = "agents" THEN AgentReturns(stage, st, llm) ELSE ContractReturns(stage)

----------------------------------------------------------------------------
\* The initial_state dicts a caller passes to run

Absent == "<absent>"

With(d, k, v) == IF v = Absent THEN d ELSE (k :> v) @@ d

UserMessage(text) == [type |-> "dict", content |-> text]

InputMessages ==
    {<<>>, <<UserMessage(NoText)>>, <<UserMessage(<<"bricks">>)>>,
     <<UserMessage(<<"50">>)>>, <<UserMessage(<<"50", "bricks">>)>>}

InputStatuses == {Absent, "started", "error", "intake_complete"}

InitialStates ==
    {With(With(With(With([messages |-> m], "status", s), "artisan_id", a),
               "artisan_phone", p),
          "artisan_name", IF p = Absent THEN Absent ELSE "N1") :
        m \in InputMessages, s \in InputStatuses,
        a \in {Absent, "A1"}, p \in {Absent, "P1"}}

----------------------------------------------------------------------------
\* The run

\* No run of the graph is under way
RunIdle ==
    /\ impl = "agents"
    /\ input = EmptyDict
    /\ state = EmptyChannels
    /\ pc = "off"
    /\ trace = <<>>

\* No stage is executing
ExecIdle == running = {} /\ suspended = {}

\* No direct call of an agent is under way and no session is open
NoCall == [stage |-> "none", arg |-> EmptyDict, phase |-> "idle", result |-> EmptyDict]
CallIdle == call = NoCall /\ sessions = 0

\* No concurrent requests
PoolIdle == runs = <<>> /\ heap = <<>>

\* No agent is running on the database
DbIdle == db = EmptyDict /\ procs = <<>>

Init ==
    /\ impl \in {"agents", "contract"}
    /\ llm \in IF impl = "agents" THEN BOOLEAN ELSE {FALSE}
    /\ input \in InitialStates
    /\ state = EmptyChannels
    /\ pc = "init"
    /\ trace = <<>>
    /\ ExecIdle
    /\ CallIdle
    /\ PoolIdle
    /\ DbIdle

\* run(initial_state): ainvoke writes the input to the channels and enters the
\* graph at the node START leads to.
StartRun ==
    /\ pc = "init"
    /\ state' = ApplyWrites(EmptyChannels, input)
    /\ pc' = EntryPoint(input)
    /\ UNCHANGED <<impl, llm, input, trace, execVars, callVars, poolVars, dbVars>>

\* The node pc returns a partial update, the update is applied to the channels,
\* and the conditional edge out of the node picks the next node from the
\* updated state.
NodeReturned ==
    /\ pc \in Stages
    /\ Len(trace) < MaxSteps
    /\ \E upd \in NodeReturns(pc, state) :
         LET merged == ApplyWrites(state, upd)
             next == Route(pc, merged)
         IN /\ state' = IF next = "raised" THEN state ELSE merged
            /\ pc' = next
            /\ trace' = Append(trace, [stage |-> pc, raised |-> FALSE, out |-> upd,
                                       status |-> Get(merged, "status", "None")])
    /\ UNCHANGED <<impl, llm, input, callVars, poolVars, dbVars>>

\* One step of the graph: the node pc is invoked on the state and returns.
InvokeNode == NodeReturned /\ UNCHANGED execVars

\* The node pc raises: neither the wrapper nor run catches it, run raises.
NodeRaised ==
    /\ pc \in Stages
    /\ Len(trace) < MaxSteps
    /\ pc' = "raised"
    /\ trace' = Append(trace, [stage |-> pc, raised |-> TRUE, out |-> EmptyDict,
                               status |-> Get(state, "status", "None")])
    /\ UNCHANGED <<impl, llm, input, state, callVars, poolVars, dbVars>>

\* The invoked node raises instead of returning (asyncio.run in the supplier's
\* wrapper raises, or an exception that is no Exception passes the agent's
\* handlers).
NodeRaises == NodeRaised /\ UNCHANGED execVars

Next == StartRun \/ InvokeNode \/ NodeRaises

Spec == Init /\ [][Next]_vars

\* The runs of the graph with the repository's agents as its nodes
InitAgents == Init /\ impl = "agents"

SpecAgents == InitAgents /\ [][Next]_vars

\* Every invoked stage returns or raises, and run is started
FairSpec == Spec /\ WF_vars(Next)

----------------------------------------------------------------------------
\* The run with the execution of a stage in steps: the callable is entered, the
\* supplier's coroutine may be suspended at its await and resumed, and the
\* callable returns or raises

\* add_node("supplier", run_async_node(...)): the one node whose agent has an
\* async process
Suspendable(stage) == stage = "supplier"

\* SupplierAgent.process comes to its await (of the supplier search)
ReachesAwait(st) == impl = "contract" \/ SupplierHasRequest(st)

\* A mutant of WrapperReturns: the wrapper hands a result to the graph while
\* the coroutine it started is suspended.
WrapperReturnsWhileSuspended(stage, susp) == TRUE

\* run_async_node's wrapper is asyncio.run(node_func(state)): it returns when
\* the coroutine has run to its end; the other nodes return when their
\* function does.
WrapperReturns(stage, susp) == stage \notin susp

\* The graph calls the callable of the node pc
BeginStage ==
    /\ pc \in Stages
    /\ pc \notin running
    /\ Len(trace) < MaxSteps
    /\ running' = running \cup {pc}
    /\ UNCHANGED <<runVars, suspended, callVars, poolVars, dbVars>>

\* The coroutine of a stage under execution is suspended at an await
SuspendStage ==
    /\ \E s \in running \ suspended :
         /\ Suspendable(s)
         /\ ReachesAwait(state)
         /\ suspended' = suspended \cup {s}
    /\ UNCHANGED <<runVars, running, callVars, poolVars, dbVars>>

\* The event loop asyncio.run started resumes the coroutine
ResumeStage ==
    /\ \E s \in suspended : suspended' = suspended \ {s}
    /\ UNCHANGED <<runVars, running, callVars, poolVars, dbVars>>

\* The callable of the node pc returns to the graph.  A coroutine it left
\* suspended is still under execution.
StageReturns ==
    /\ pc \in running
    /\ WrapperReturns(pc, suspended)
    /\ NodeReturned
    /\ running' = IF pc \in suspended THEN running ELSE running \ {pc}
    /\ UNCHANGED suspended

\* The callable of the node pc raises
StageRaises ==
    /\ pc \in running
    /\ WrapperReturns(pc, suspended)
    /\ NodeRaised
    /\ running' = IF pc \in suspended THEN running ELSE running \ {pc}
    /\ UNCHANGED suspended

NextExec ==
    StartRun \/ BeginStage \/ SuspendStage \/ ResumeStage \/ StageReturns \/ StageRaises

SpecExec == Init /\ [][NextExec]_vars

----------------------------------------------------------------------------
\* Concurrent requests to POST /api/agents/request, each a run of its own
\* KarigarWorkflow, their steps interleaved

\* A bound of the model: the number of concurrent requests
NumRuns == 2

Requests == 1..NumRuns

\* The bodies of the requests
RequestInputs ==
    {[artisan_id |-> a, message |-> <<"50", "bricks">>, artisan_phone |-> "P1",
      artisan_name |-> "N1"] : a \in {"A1", "A2"}}

\* create_material_request: the initial_state dict made from the request
initial_state(req) ==
    [messages |-> <<UserMessage(req.message)>>,
     artisan_id |-> req.artisan_id,
     artisan_phone |-> req.artisan_phone,
     artisan_name |-> req.artisan_name,
     status |-> "started"]

\* A mutant of NewObject: the workflow state is kept in one object that all
\* requests use.
NewObjectShared(h) == 1

\* workflow = KarigarWorkflow() and the run's state: a new object for each
\* request
NewObject(h) == Len(h) + 1

\* The heap with the object `ref` holding the dict d
Store(h, ref, d) == IF ref = Len(h) + 1 THEN Append(h, d) ELSE [h EXCEPT ![ref] = d]

InitRuns ==
    /\ RunIdle
    /\ llm \in BOOLEAN
    /\ ExecIdle
    /\ CallIdle
    /\ DbIdle
    /\ runs \in [Requests -> {[input |-> initial_state(req), pc |-> "init", ref |-> 0,
                                last |-> EmptyDict] : req \in RequestInputs}]
    /\ heap = <<>>

\* workflow.run(initial_state) of the request r starts
RunStarts(r) ==
    /\ runs[r].pc = "init"
    /\ LET ref == NewObject(heap) IN
       /\ heap' = Store(heap, ref, ApplyWrites(EmptyChannels, runs[r].input))
       /\ runs' = [runs EXCEPT ![r].pc = EntryPoint(runs[r].input), ![r].ref = ref]
    /\ UNCHANGED <<runVars, execVars, callVars, dbVars>>

\* The run of the request r invokes its next node on its state, merges the
\* update and takes the edge
RunInvokes(r) ==
    /\ runs[r].pc \in Stages
    /\ LET st == heap[runs[r].ref] IN
       \E upd \in NodeReturns(runs[r].pc, st) :
          LET merged == ApplyWrites(st, upd)
              next == Route(runs[r].pc, merged)
          IN /\ heap' = Store(heap, runs[r].ref, IF next = "raised" THEN st ELSE merged)
             /\ runs' = [runs EXCEPT ![r].pc = next, ![r].last = upd]
    /\ UNCHANGED <<runVars, execVars, callVars, dbVars>>

\* The node the run of the request r invoked raises
RunRaises(r) ==
    /\ runs[r].pc \in Stages
    /\ runs' = [runs EXCEPT ![r].pc = "raised"]
    /\ UNCHANGED <<runVars, execVars, callVars, heap, dbVars>>

NextRuns == \E r \in Requests : RunStarts(r) \/ RunInvokes(r) \/ RunRaises(r)

SpecRuns == InitRuns /\ [][NextRuns]_vars

\* raise HTTPException(status_code=..., detail=...)
HTTPException(status_code, detail) == [status_code |-> status_code, detail |-> detail]

\* str(e) of an HTTPException, as text in pieces: "<status_code>: <detail>"
StrOfHTTPException(e) == <<"500: ">> \o e.detail

\* create_material_request from `result = await workflow.run(initial_state)` to
\* its answer.  The HTTPException raised for a final status "error" is raised
\* inside the try, so `except Exception` catches it and raises another with
\* detail=str(e), as it does for whatever run raised.
create_material_request(raised, result) ==
    IF raised
    THEN HTTPException(500, <<"e">>)
    ELSE IF Get(result, "status", "None") = "error"
    THEN HTTPException(500,
            StrOfHTTPException(
               HTTPException(500, <<Get(result, "error", "An unknown workflow error occurred.")>>)))
    ELSE [status_code |-> 200, message |-> "Workflow completed successfully",
          final_state |-> result]

\* The request r has been answered
Answered(r) == runs[r].pc \in {"end", "raised"}

\* The answer to the request r
Answer(r) == create_material_request(runs[r].pc = "raised", heap[runs[r].ref])

----------------------------------------------------------------------------
\* An agent's process called directly on a state (as the tests and main.py call
\* it), statement by statement where it holds a database session

\* A bound of the model: the number of words of a message's text
MaxWords == 4

Words == {"0", "50", "bricks", "cement", "in", "Mumbai"}
Texts == UNION {[1..n -> Words] : n \in 0..MaxWords}

\* The dicts with the key k or without it
Opt(k, values) == {EmptyDict} \cup {k :> v : v \in values}

MaterialRequest1 ==
    [material |-> "bricks", quantity |-> 50, unit |-> "units", budget |-> 0,
     timeline |-> "ASAP", location |-> NoText]
OrderDetails1 == [total_amount |-> 120, status |-> "confirmed"]

\* The states process is called on: the fields the agent reads, each present
\* or absent
ProcessArgs(stage) ==
    CASE stage = "intake" ->
           {m @@ a @@ p :
               m \in Opt("messages", {<<>>} \cup {<<UserMessage(t)>> : t \in Texts}),
               a \in Opt("artisan_id", {"A1"}),
               p \in Opt("artisan_phone", {"P1"})}
      [] stage = "supplier" ->
           {r @@ m : r \in Opt("request_id", {"R1"}),
                     m \in Opt("material_request", {MaterialRequest1})}
      [] stage = "commit" ->
           {q @@ r @@ a : q \in Opt("supplier_quotes", {<<>>} \cup QuoteLists),
                          r \in Opt("request_id", {"R1"}),
                          a \in Opt("artisan_id", {"A1"})}
      [] stage = "sales" ->
           {a @@ d : a \in Opt("artisan_id", {"A1"}),
                     d \in Opt("order_details", {OrderDetails1})}
      [] stage = "cash" ->
           {a @@ o @@ d : a \in Opt("artisan_id", {"A1"}),
                          o \in Opt("order_id", {"O1"}),
                          d \in Opt("order_details", {OrderDetails1})}

\* agent.process(state) has just been called
InitProcess ==
    /\ RunIdle
    /\ llm \in BOOLEAN
    /\ \E s \in Stages :
         \E a \in ProcessArgs(s) :
            call = [stage |-> s, arg |-> a, phase |-> "called", result |-> EmptyDict]
    /\ sessions = 0
    /\ ExecIdle
    /\ PoolIdle
    /\ DbIdle

\* A mutant of CloseSession: the session is closed where the try returns its
\* result and not where the handler returns the error.
CloseSessionOnSuccess(n, result) ==
    IF Get(result, "status", "None") = "error" THEN n ELSE n - 1

\* finally: session.close(), whatever the try or its handler is returning
CloseSession(n, result) == n - 1

\* process returns on a path that opens no session
ProcessReturnsEarly ==
    /\ call.phase = "called"
    /\ \E upd \in EarlyReturns(call.stage, call.arg, llm) :
         call' = [call EXCEPT !.phase = "returned", !.result = upd]
    /\ UNCHANGED <<runVars, execVars, sessions, poolVars, dbVars>>

\* session = get_session()
ProcessOpensSession ==
    /\ call.phase = "called"
    /\ SessionReturns(call.stage, call.arg, llm) # {}
    /\ call' = [call EXCEPT !.phase = "in_session"]
    /\ sessions' = sessions + 1
    /\ UNCHANGED <<runVars, execVars, poolVars, dbVars>>

\* The try that holds the session comes to a return: of its result, or, after
\* session.rollback(), of the error in its handler
ProcessLeavesTry ==
    /\ call.phase = "in_session"
    /\ \E upd \in SessionReturns(call.stage, call.arg, llm) :
         call' = [call EXCEPT !.phase = "finally", !.result = upd]
    /\ UNCHANGED <<runVars, execVars, sessions, poolVars, dbVars>>

\* The finally clause runs and process returns
ProcessFinally ==
    /\ call.phase = "finally"
    /\ sessions' = CloseSession(sessions, call.result)
    /\ call' = [call EXCEPT !.phase = "returned"]
    /\ UNCHANGED <<runVars, execVars, poolVars, dbVars>>

NextProcess ==
    ProcessReturnsEarly \/ ProcessOpensSession \/ ProcessLeavesTry \/ ProcessFinally

SpecProcess == InitProcess /\ [][NextProcess]_vars

----------------------------------------------------------------------------
\* The agents on the database: process called on a state by callers that share
\* the tables, statement by statement where it reads and writes them

\* A bound of the model: the number of calls of process in one behaviour
NumCalls == 2

Callers == 1..NumCalls

\* The rows the tables hold before any call: the artisans (two of them have
\* the same name, which no column forbids), one request of A1 and the quotes
\* generated for it
ArtisanRows ==
    [A1 |-> <<"Ravi", "Kumar">>, A2 |-> <<"Ravi", "Kumar">>, A3 |-> <<"Meena">>]
RequestRows == [R1 |-> [artisan_id |-> "A1"]]
Quote3 == [id |-> "Q3", supplier_id |-> "S3", total_price |-> 90, delivery_charge |-> 30]
QuoteRows == <<Quote1, Quote2, Quote3>>

\* The tables before any call
InitialTables ==
    [selected |-> {}, orders |-> <<>>, stores |-> <<>>, ledger |-> <<>>, searches |-> 0]

\* session.query(SupplierQuote).filter_by(id=...).first(): the rows it matches
QuoteById(id) == {QuoteRows[i] : i \in {j \in 1..Len(QuoteRows) : QuoteRows[j].id = id}}

\* str.lower() on the words of the model
Lower(w) ==
    CASE w = "Ravi" -> "ravi" [] w = "Kumar" -> "kumar" [] w = "Meena" -> "meena"
      [] OTHER -> w

\* StoreGenerator.create_store_page: the URL of the page it writes, from the
\* words of the artisan's name
create_store_page(artisan_name) ==
    LET safe_name == IF artisan_name = <<>> THEN <<"artisan">> ELSE artisan_name
    IN <<"/uploads/stores/">> \o [i \in 1..Len(safe_name) |-> Lower(safe_name[i])]
       \o <<"_store.html">>

\* A mutant of StoreUrlTaken: store_url is not unique.
StoreUrlNeverTaken(stores, url) == FALSE

\* micro_stores.store_url is unique: an insert of a URL a row has raises
StoreUrlTaken(stores, url) == \E i \in 1..Len(stores) : stores[i].store_url = url

\* session.query(MicroStore).filter_by(artisan_id=artisan_id): the rows
StoresOf(stores, artisan_id) ==
    {stores[i] : i \in {j \in 1..Len(stores) : stores[j].artisan_id = artisan_id}}

\* session.query(Ledger).filter_by(artisan_id=artisan_id): the positions of the
\* rows, which are in the order of their timestamps
EntriesOf(ledger, artisan_id) == {i \in 1..Len(ledger) : ledger[i].artisan_id = artisan_id}

\* A mutant of LastBalance: the balance starts again from 0 at every entry.
LastBalanceZero(ledger, artisan_id) == 0

\* ....order_by(Ledger.timestamp.desc()).first(): the position of the entry
\* with the latest timestamp, 0 for None
LastEntry(ledger, artisan_id) ==
    LET mine == EntriesOf(ledger, artisan_id)
    IN IF mine = {} THEN 0 ELSE CHOOSE i \in mine : \A j \in mine : j <= i

\* last_entry.balance_after if last_entry else 0
LastBalance(ledger, artisan_id) ==
    LET last_entry == LastEntry(ledger, artisan_id)
    IN IF last_entry = 0 THEN 0 ELSE ledger[last_entry].balance_after

\* The states process is called on
DbQuoteLists == {<<Quote1, Quote2>>, <<Quote2, Quote3>>, <<Quote3, Quote2>>}
OrderDetails2 == [total_amount |-> 50, status |-> "confirmed"]
DbArgs(stage) ==
    CASE stage = "supplier" -> ProcessArgs("supplier")
      [] stage = "commit" ->
           {q @@ r @@ a : q \in Opt("supplier_quotes", {<<>>} \cup DbQuoteLists),
                          r \in Opt("request_id", {"R1"}),
                          a \in Opt("artisan_id", {"A1"})}
      [] stage = "sales" ->
           {a @@ d : a \in Opt("artisan_id", {"A1", "A2", "A3", "A9"}),
                     d \in Opt("order_details", {OrderDetails1})}
      [] stage = "cash" ->
           {a @@ o @@ d : a \in Opt("artisan_id", {"A1"}),
                          o \in Opt("order_id", {"O1"}),
                          d \in Opt("order_details", {OrderDetails1, OrderDetails2})}

DbStages == {"supplier", "commit", "sales", "cash"}

\* The rows a call has written
NothingMade == [orders |-> {}, quotes |-> {}, stores |-> {}, ledger |-> {}]

NoResponse == [status_code |-> 0]
NoProc ==
    [stage |-> "none", via |-> "none", selection |-> "None", arg |-> EmptyDict,
     pc |-> "idle", local |-> EmptyDict, made |-> NothingMade, fault |-> FALSE,
     result |-> EmptyDict, response |-> NoResponse]

\* No call has been made
InitDb ==
    /\ RunIdle
    /\ llm = FALSE
    /\ ExecIdle
    /\ CallIdle
    /\ PoolIdle
    /\ db = InitialTables
    /\ procs = [p \in Callers |-> NoProc]

\* The callers of one behaviour call the same agent (the agents write
\* different tables), and the calls of SupplierAgent and CommitAgent follow
\* one another
MayCall(stage) ==
    /\ \A q \in Callers : procs[q].pc # "idle" => procs[q].stage = stage
    /\ stage \in {"supplier", "commit"} => \A q \in Callers : procs[q].pc \in {"idle", "returned"}

\* agent.process(state), called as the tests call it
Call(p) ==
    /\ procs[p].pc = "idle"
    /\ \E stage \in DbStages :
         /\ MayCall(stage)
         /\ \E a \in DbArgs(stage) :
              procs' = [procs EXCEPT ![p] = [NoProc EXCEPT !.stage = stage, !.via = "process",
                                                           !.arg = a, !.pc = "called"]]
    /\ UNCHANGED <<runVars, execVars, callVars, poolVars, db>>

\* POST /api/select_quote answers 404
NotFound(detail) == [status_code |-> 404, detail |-> detail]

\* POST /api/select_quote, the answer after commit_agent.process returned
select_quote_responds(commit_result) ==
    IF Get(commit_result, "status", "None") = "error"
    THEN [status_code |-> 500, detail |-> Get(commit_result, "error", "Failed to commit order.")]
    ELSE [status_code |-> 200, success |-> TRUE, message |-> "Order created successfully!",
          data |-> commit_result]

\* POST /api/select_quote up to commit_agent.process(initial_state): the request
\* and the quote are looked up and the state is built from the request's quotes
SelectQuote(p) ==
    /\ procs[p].pc = "idle"
    /\ MayCall("commit")
    /\ \E request_id \in {"R1", "R9"}, quote_id \in {"Q1", "Q2", "Q3", "Q9"} :
         IF request_id \notin DOMAIN RequestRows
         THEN procs' = [procs EXCEPT ![p] = [NoProc EXCEPT
                  !.stage = "commit", !.via = "select_quote", !.selection = quote_id,
                  !.pc = "returned", !.response = NotFound("MaterialRequest not found.")]]
         ELSE IF QuoteById(quote_id) = {}
         THEN procs' = [procs EXCEPT ![p] = [NoProc EXCEPT
                  !.stage = "commit", !.via = "select_quote", !.selection = quote_id,
                  !.pc = "returned",
                  !.response = NotFound("SupplierQuote not found or does not belong to the request.")]]
         ELSE LET selected_quote == CHOOSE q \in QuoteById(quote_id) : TRUE
                  initial ==
                      [request_id |-> request_id,
                       artisan_id |-> RequestRows[request_id].artisan_id,
                       material_request |-> MaterialRequest1,
                       supplier_quotes |-> QuoteRows,
                       selected_quote |-> selected_quote,
                       status |-> "quote_selected"]
              IN procs' = [procs EXCEPT ![p] = [NoProc EXCEPT
                  !.stage = "commit", !.via = "select_quote", !.selection = quote_id,
                  !.arg = initial, !.pc = "called"]]
    /\ UNCHANGED <<runVars, execVars, callVars, poolVars, db>>

\* process returns upd; the endpoint that called it answers
Finish(p, upd, fault) ==
    [procs EXCEPT ![p].pc = "returned", ![p].result = upd, ![p].fault = fault,
                  ![p].response = IF procs[p].via = "select_quote"
                                  THEN select_quote_responds(upd) ELSE NoResponse]

\* SupplierAgent.process: without the request it returns the error; with it, it
\* searches and returns what the search and the quote generation give
SupplierRuns(p) ==
    /\ procs[p].pc = "called" /\ procs[p].stage = "supplier"
    /\ IF ~SupplierHasRequest(procs[p].arg)
       THEN /\ procs' = Finish(p, Err("Missing material request details."), FALSE)
            /\ db' = db
       ELSE /\ db' = [db EXCEPT !.searches = @ + 1]
            /\ \E upd \in {Err("No suppliers found for the material and location.")}
                          \cup SupplierInSession(procs[p].arg) :
                 procs' = Finish(p, upd, FALSE)
    /\ UNCHANGED <<runVars, execVars, callVars, poolVars>>

\* session.add(new_order); session.commit(): the order and the selected flag
\* of its quote are in the tables
FirstCommit(tables, order, quote_id) ==
    [tables EXCEPT !.orders = Append(@, order), !.selected = @ \cup {quote_id}]

\* CommitAgent.process up to order_id = new_order.id: the cheapest quote is
\* chosen, its row is marked selected and the order is inserted and committed
CommitOrders(p) ==
    /\ procs[p].pc = "called" /\ procs[p].stage = "commit"
    /\ LET st == procs[p].arg
           quotes == Get(st, "supplier_quotes", <<>>)
           request_id == Get(st, "request_id", "None")
           artisan_id == Get(st, "artisan_id", "None")
       IN IF quotes = <<>>
          THEN /\ procs' = Finish(p, Err("No supplier quotes available to commit."), FALSE)
               /\ db' = db
          ELSE LET selected_quote_dict == MinQuote(quotes)
                   quote_objs == QuoteById(selected_quote_dict.id)
               IN IF quote_objs = {}
                  THEN /\ procs' = Finish(p, Err("DB/File Error: e"), FALSE)
                       /\ db' = db
                  ELSE IF \/ request_id \notin DOMAIN RequestRows
                          \/ artisan_id \notin DOMAIN ArtisanRows
                  THEN /\ procs' = Finish(p, Err("Could not retrieve full order details from DB."), FALSE)
                       /\ db' = db
                  ELSE LET quote_obj == CHOOSE q \in quote_objs : TRUE
                           order_id == Len(db.orders) + 1
                           new_order ==
                               [id |-> order_id, artisan_id |-> artisan_id,
                                request_id |-> request_id, quote_id |-> quote_obj.id,
                                total_amount |-> quote_obj.total_price + quote_obj.delivery_charge,
                                status |-> "confirmed", upi_link |-> "None", po_path |-> "None"]
                       IN \/ /\ procs' = Finish(p, Err("DB/File Error: e"), TRUE)
                             /\ db' = db
                          \/ /\ db' = FirstCommit(db, new_order, quote_obj.id)
                             /\ procs' = [procs EXCEPT
                                  ![p].pc = "ordered",
                                  ![p].local = [order_id |-> order_id,
                                                selected_quote |-> selected_quote_dict,
                                                total_amount |-> new_order.total_amount],
                                  ![p].made = [@ EXCEPT !.orders = {order_id},
                                                        !.quotes = {quote_obj.id}]]
    /\ UNCHANGED <<runVars, execVars, callVars, poolVars>>

\* The order of this id with its payment link and purchase order path
WithFiles(orders, order_id) ==
    [i \in 1..Len(orders) |->
        IF orders[i].id = order_id
        THEN [orders[i] EXCEPT !.upi_link = "upi", !.po_path = "po.pdf"]
        ELSE orders[i]]

\* CommitAgent.process from the payment package to its return: the package and
\* the purchase order are generated and the order is committed again; when
\* one of them raises, the handler rolls back and returns the error
CommitFiles(p) ==
    /\ procs[p].pc = "ordered"
    /\ LET l == procs[p].local
       IN \/ /\ procs' = Finish(p, Err("DB/File Error: e"), TRUE)
             /\ db' = db
          \/ /\ db' = [db EXCEPT !.orders = WithFiles(@, l.order_id)]
             /\ procs' = Finish(p, [CommitSuccess(l.selected_quote, l.order_id) EXCEPT
                                       !.order_details.total_amount = l.total_amount], FALSE)
    /\ UNCHANGED <<runVars, execVars, callVars, poolVars>>

\* SalesAgent.process up to create_store_page: the skip, the store the artisan
\* has, or the page of the store to insert
SalesQueries(p) ==
    /\ procs[p].pc = "called" /\ procs[p].stage = "sales"
    /\ LET st == procs[p].arg
           artisan_id == Get(st, "artisan_id", "None")
       IN IF SalesNothingToDo(st)
          THEN procs' = Finish(p, [status |-> "sales_skipped"], FALSE)
          ELSE IF StoresOf(db.stores, artisan_id) # {}
          THEN \E existing_store \in StoresOf(db.stores, artisan_id) :
                  procs' = Finish(p, SalesExisting(existing_store.store_url), FALSE)
          ELSE IF artisan_id \notin DOMAIN ArtisanRows
          THEN procs' = Finish(p, Err("Artisan not found."), FALSE)
          ELSE \/ procs' = Finish(p, Err("DB/File Error: e"), TRUE)
               \/ procs' = [procs EXCEPT
                     ![p].pc = "page",
                     ![p].local = [store_url |-> create_store_page(ArtisanRows[artisan_id])]]
    /\ db' = db
    /\ UNCHANGED <<runVars, execVars, callVars, poolVars>>

\* SalesAgent.process from MicroStore(...) to its return: the store is inserted
\* and committed, or the insert raises and the handler returns the error
SalesInserts(p) ==
    /\ procs[p].pc = "page"
    /\ LET artisan_id == procs[p].arg.artisan_id
           store_url == procs[p].local.store_url
           store_id == Len(db.stores) + 1
       IN IF StoreUrlTaken(db.stores, store_url)
          THEN /\ procs' = Finish(p, Err("DB/File Error: e"), FALSE)
               /\ db' = db
          ELSE \/ /\ procs' = Finish(p, Err("DB/File Error: e"), TRUE)
                  /\ db' = db
               \/ /\ db' = [db EXCEPT !.stores = Append(@,
                               [id |-> store_id, artisan_id |-> artisan_id,
                                store_url |-> store_url])]
                  /\ procs' = [Finish(p, SalesSuccess(store_id, store_url), FALSE)
                                 EXCEPT ![p].made.stores = {store_id}]
    /\ UNCHANGED <<runVars, execVars, callVars, poolVars>>

\* CashAgent.process up to current_balance: the skip, or the balance of the
\* artisan's last entry
CashReads(p) ==
    /\ procs[p].pc = "called" /\ procs[p].stage = "cash"
    /\ LET st == procs[p].arg
       IN IF CashNothingToDo(st)
          THEN procs' = Finish(p, [status |-> "cash_skipped"], FALSE)
          ELSE procs' = [procs EXCEPT
                  ![p].pc = "balance",
                  ![p].local = [last_entry |-> LastEntry(db.ledger, st.artisan_id),
                                current_balance |-> LastBalance(db.ledger, st.artisan_id)]]
    /\ db' = db
    /\ UNCHANGED <<runVars, execVars, callVars, poolVars>>

\* CashAgent.process from amount = ... to its return: the debit entry is
\* inserted and committed, or the commit raises and the handler returns the
\* error
CashInserts(p) ==
    /\ procs[p].pc = "balance"
    /\ LET st == procs[p].arg
           amount == Get(st.order_details, "total_amount", 0)
           new_balance == procs[p].local.current_balance - amount
           ledger_entry ==
               [artisan_id |-> st.artisan_id, order_id |-> st.order_id, type |-> "debit",
                amount |-> amount, category |-> "material_purchase",
                balance_after |-> new_balance]
       IN \/ /\ procs' = Finish(p, Err("DB Error: e"), TRUE)
             /\ db' = db
          \/ /\ db' = [db EXCEPT !.ledger = Append(@, ledger_entry)]
             /\ procs' = [Finish(p, [status |-> "cash_complete"], FALSE)
                            EXCEPT ![p].made.ledger = {Len(db.ledger) + 1}]
    /\ UNCHANGED <<runVars, execVars, callVars, poolVars>>

Calls == \E p \in Callers : Call(p)
SelectQuoteCalled == \E p \in Callers : SelectQuote(p)
SupplierStep == \E p \in Callers : SupplierRuns(p)
CommitOrderStep == \E p \in Callers : CommitOrders(p)
CommitFilesStep == \E p \in Callers : CommitFiles(p)
SalesQueryStep == \E p \in Callers : SalesQueries(p)
SalesInsertStep == \E p \in Callers : SalesInserts(p)
CashReadStep == \E p \in Callers : CashReads(p)
CashInsertStep == \E p \in Callers : CashInserts(p)

NextDb ==
    \/ Calls \/ SelectQuoteCalled \/ SupplierStep
    \/ CommitOrderStep \/ CommitFilesStep
    \/ SalesQueryStep \/ SalesInsertStep
    \/ CashReadStep \/ CashInsertStep

SpecDb == InitDb /\ [][NextDb]_vars

----------------------------------------------------------------------------
\* Reading the trace

Steps == 1..Len(trace)

\* The stage invocation i returned a partial update with this status
Returned(i, status) ==
    ~trace[i].raised /\ Get(trace[i].out, "status", "None") = status

StatusOf(d) == Get(d, "status", "None")

\* run has handed a state back to its caller
RunReturned == pc = "end"

----------------------------------------------------------------------------
\* The claims

\* C1: if a stage returns a partial update with status "error", no further
\* stage is invoked in that run (it is the last invocation and the run is
\* over) and the state run returns has status "error".
C1_ErrorShortCircuit ==
    \A i \in Steps :
        Returned(i, "error") =>
            i = Len(trace) /\ RunReturned /\ StatusOf(state) = "error"

\* C1's case: with the repository's agents, the supplier stage reported an
\* error and the run ended there.
C1_Witness ==
    /\ impl = "agents"
    /\ Len(trace) = 2
    /\ trace[2].stage = "supplier"
    /\ Returned(2, "error")
    /\ RunReturned

\* C2 (as claimed): if a stage invocation raises, run still returns, with a
\* state whose status is "error".
C2_FaultContained ==
    \A i \in Steps :
        trace[i].raised => (RunReturned /\ StatusOf(state) = "error")

\* C3 (as claimed): when stage N+1 is about to be invoked, every field stage N
\* emitted is in the state stage N+1 reads, with the emitted value.
C3_ReadAfterWrite ==
    (trace # <<>> /\ ~trace[Len(trace)].raised /\ pc \in Stages) =>
        LET emitted == trace[Len(trace)].out IN
        \A k \in DOMAIN emitted : Has(state, k) /\ state[k] = emitted[k]

\* The transition table of the design
CanonicalNext(status) ==
    CASE status = "intake_complete" -> "supplier"
      [] status = "supplier_search_complete" -> "commit"
      [] status = "commit_complete" -> "sales"
      [] status \in {"sales_complete", "sales_skipped"} -> "cash"
      [] OTHER -> "end"

\* C4: should_continue is a function of the status alone and equals the
\* canonical table, on the workflow state and on the caller's dict (which
\* carries keys the state does not), for every status including an absent one.
C4_TransitionPolicy ==
    /\ should_continue(state) = CanonicalNext(StatusOf(state))
    /\ should_continue(input) = CanonicalNext(StatusOf(input))
    /\ should_continue(state) = should_continue([status |-> StatusOf(state)])

\* C4's case: the policy was applied to a state whose status is the skip status
\* of sales and chose cash.
C4_Witness ==
    /\ trace # <<>>
    /\ trace[Len(trace)].stage = "sales"
    /\ StatusOf(state) = "sales_skipped"
    /\ pc = "cash"

\* C5 (as claimed): the first stage is chosen by the policy too, so a run whose
\* initial state has status "error" invokes no stage and returns that state.
C5_FirstStageByPolicy ==
    (impl = "agents" /\ pc # "init" /\ StatusOf(input) = "error") =>
        (trace = <<>> /\ RunReturned)

\* C5 (amended): run invokes intake first whatever the initial status; every
\* later stage is the one the policy names for the state the stage before it
\* left; once a stage has returned status "error" no stage is invoked.
C5_IntakeFirstThenPolicy ==
    /\ (pc # "init" /\ trace = <<>>) => pc = "intake"
    /\ trace # <<>> => trace[1].stage = "intake"
    /\ \A i \in Steps :
         i > 1 => /\ ~trace[i - 1].raised
                  /\ trace[i].stage = should_continue([status |-> trace[i - 1].status])
    /\ \A i \in Steps : Returned(i, "error") => i = Len(trace) /\ pc \notin Stages

\* C5's case: a run started with status "error" has invoked intake, and intake
\* returned.
C5_Witness ==
    /\ impl = "agents"
    /\ StatusOf(input) = "error"
    /\ trace # <<>>
    /\ trace[1].stage = "intake"
    /\ ~trace[1].raised

\* C6: in every run each of the five stages is invoked at most once, whatever
\* the stages return.
C6_AtMostOncePerStage ==
    \A s \in Stages : Cardinality({i \in Steps : trace[i].stage = s}) <= 1

\* C6's case: a run in which all five stages were invoked, sales having
\* reported that it skipped.
C6_Witness ==
    /\ RunReturned
    /\ {trace[i].stage : i \in Steps} = Stages
    /\ \E i \in Steps : Returned(i, "sales_skipped")

\* The run is over: it returned or it raised
Terminated == pc \in {"end", "raised"}

\* C7: when every invoked stage returns (or raises), every run terminates, and
\* no run makes more stage invocations than there are stages.
C7_Termination ==
    /\ [](Len(trace) <= Cardinality(Stages))
    /\ <>Terminated

\* C7's case: a run that terminated after as many invocations as there are
\* stages.
C7_Witness == Terminated /\ Len(trace) = Cardinality(Stages)

\* The step that merges the partial update a stage returned into the state
MergeStep ==
    /\ Len(trace') = Len(trace) + 1
    /\ ~trace'[Len(trace')].raised
    /\ pc' # "raised"

\* C8 (as claimed): the merge keeps every key of the previous state, gives the
\* keys of the update the update's value, and leaves the other keys as they
\* were.
C8_MergeNonDestructive ==
    [][MergeStep =>
         LET upd == trace'[Len(trace')].out IN
         /\ \A k \in DOMAIN state : Has(state', k)
         /\ \A k \in DOMAIN upd : Has(state', k) /\ state'[k] = upd[k]
         /\ \A k \in DOMAIN state \ DOMAIN upd : state'[k] = state[k]]_vars

\* The keys some stage's partial update named in this run
Overwritten == UNION {DOMAIN trace[i].out : i \in Steps}

\* The texts of a list of messages, whatever the type of each message
Contents(msgs) == [i \in 1..Len(msgs) |-> msgs[i].content]

\* C9 (as claimed): every field of the initial state that no stage's update
\* names is in the state run returns, with its initial value (messages are
\* compared by their texts, so the reducer's coercion counts as no change).
C9_FieldRetention ==
    RunReturned =>
        \A k \in DOMAIN input \ Overwritten :
            /\ Has(state, k)
            /\ IF k = "messages"
               THEN Contents(state[k]) = Contents(input[k])
               ELSE state[k] = input[k]

\* C10: merging an empty partial update leaves the workflow state as it was.
C10_EmptyMergeIdentity ==
    [][(MergeStep /\ trace'[Len(trace')].out = EmptyDict) => state' = state]_vars

\* C10's case: a stage returned the empty update into a state that holds more
\* than the messages, and the run went on from the unchanged status.
C10_Witness ==
    /\ Len(trace) = 1
    /\ ~trace[1].raised
    /\ trace[1].out = EmptyDict
    /\ Has(state, "artisan_id")
    /\ pc = "supplier"

\* C11 (as claimed): when a stage returns {"status": "error", "error": msg}, the
\* state run returns has the field error, with exactly that msg.
C11_ErrorVisible ==
    RunReturned =>
        \A i \in Steps :
            (Returned(i, "error") /\ Has(trace[i].out, "error")) =>
                (Has(state, "error") /\ state["error"] = trace[i].out["error"])

\* C12: whenever the sales stage returned status "sales_skipped", the cash stage
\* is the next stage invoked: right after the return the run stands at cash with
\* that status (not "error", and it has not ended or raised), and the next
\* invocation of the run, if there is one yet, is the cash stage.
C12_SkipAdvances ==
    \A i \in Steps :
        (trace[i].stage = "sales" /\ Returned(i, "sales_skipped")) =>
            /\ trace[i].status = "sales_skipped"
            /\ IF i = Len(trace) THEN pc = "cash" ELSE trace[i + 1].stage = "cash"

\* C12's case: sales returned "sales_skipped" and cash was invoked after it and
\* returned.
C12_Witness ==
    /\ Len(trace) = 5
    /\ trace[4].stage = "sales"
    /\ Returned(4, "sales_skipped")
    /\ trace[5].stage = "cash"
    /\ ~trace[5].raised
    /\ RunReturned

\* The statuses the five agents report, agent by agent
OwnStatuses(stage) ==
    CASE stage = "intake"   -> {"error", "intake_complete"}
      [] stage = "supplier" -> {"error", "supplier_search_complete"}
      [] stage = "commit"   -> {"error", "commit_complete"}
      [] stage = "sales"    -> {"error", "sales_complete", "sales_skipped"}
      [] stage = "cash"     -> {"error", "cash_complete", "cash_skipped"}

\* Every stage invoked so far returned one of its own statuses
StagesKeptContract ==
    \A i \in Steps :
        ~trace[i].raised /\ Get(trace[i].out, "status", "None") \in OwnStatuses(trace[i].stage)

\* C13: the state a run returns has status "cash_complete", "error" or
\* "cash_skipped", never an intermediate one: for the repository's agents
\* always, and for any stages that return the statuses the agents return.
C13_ResultContract ==
    (RunReturned /\ (impl = "agents" \/ StagesKeptContract)) =>
        StatusOf(state) \in {"cash_complete", "error", "cash_skipped"}

\* C13's case: a run through all five stages returned, the cash stage having
\* reported "cash_skipped".
C13_Witness ==
    /\ RunReturned
    /\ StagesKeptContract
    /\ Len(trace) = 5
    /\ Returned(5, "cash_skipped")
    /\ StatusOf(state) = "cash_skipped"

\* The identity fields of the workflow state
IdentityKeys == {"artisan_id", "request_id", "order_id"}

\* C15: once the workflow state holds a value (one that is not None or empty)
\* for artisan_id, request_id or order_id, no step of the run changes it; and
\* the artisan_id intake emits is the one the initial state came with.
C15_IdentityWriteOnce ==
    /\ [][\A k \in IdentityKeys :
             (Has(state, k) /\ ~Falsy(state[k])) =>
                 (Has(state', k) /\ state'[k] = state[k])]_vars
    /\ [](\A i \in Steps :
             (trace[i].stage = "intake" /\ Has(trace[i].out, "artisan_id")
              /\ Has(input, "artisan_id") /\ ~Falsy(input["artisan_id"])) =>
                 trace[i].out["artisan_id"] = input["artisan_id"])

\* C15's case: the initial state came with an artisan_id, intake emitted an
\* artisan_id and the update was merged.
C15_Witness ==
    /\ impl = "agents"
    /\ Has(input, "artisan_id")
    /\ Len(trace) = 1
    /\ Returned(1, "intake_complete")
    /\ Has(trace[1].out, "artisan_id")
    /\ Has(state, "artisan_id")
    /\ pc = "supplier"

\* The order of the stages
StageOrder == <<"intake", "supplier", "commit", "sales", "cash">>

\* C20: the stages invoked in a run are, in order, a prefix of (intake,
\* supplier, commit, sales, cash); a stage after the first is invoked only when
\* the stage before it returned and left the status the transition table maps
\* to it, and with the repository's agents that status is in the update the
\* stage before it returned.
C20_StageOrdering ==
    \A i \in Steps :
        /\ i <= Len(StageOrder)
        /\ trace[i].stage = StageOrder[i]
        /\ i > 1 => /\ ~trace[i - 1].raised
                     /\ CanonicalNext(trace[i - 1].status) = trace[i].stage
                     /\ impl = "agents" => Returned(i - 1, trace[i - 1].status)

\* C20's case: a run that invoked all five stages, each after the stage before
\* it returned its success status.
C20_Witness ==
    /\ Len(trace) = 5
    /\ Returned(1, "intake_complete")
    /\ Returned(2, "supplier_search_complete")
    /\ Returned(3, "commit_complete")
    /\ Returned(4, "sales_complete")
    /\ trace[5].stage = "cash"

\* process has returned to its caller
ProcessReturned == call.phase = "returned"

\* C14: whatever state an agent's process is called on, and whether it returns
\* early, skips, succeeds or reports a failure of the LLM, the database or a
\* tool, the update it returns has a status, one of that agent's statuses.
C14_StatusOnEveryExit ==
    ProcessReturned =>
        /\ Has(call.result, "status")
        /\ call.result["status"] \in OwnStatuses(call.stage)

\* C14's case: CommitAgent.process was called on a state that has quotes but
\* no request_id, the database raised, and process returned the error.
C14_Witness ==
    /\ ProcessReturned
    /\ call.stage = "commit"
    /\ ~Has(call.arg, "request_id")
    /\ call.result = Err("DB/File Error: e")

\* C18: a session an agent's process (or the quote tool it calls) opened is
\* closed when process returns, on every path: no session is open before the
\* call or after the return, and one is open only inside the try.
C18_SessionsScoped ==
    /\ call.phase \in {"called", "returned"} => sessions = 0
    /\ call.phase \in {"in_session", "finally"} => sessions = 1

\* C18's case: SupplierAgent.process returned the error it reports when
\* generate_quotes_for_request, having opened its session, failed.
C18_Witness ==
    /\ ProcessReturned
    /\ call.stage = "supplier"
    /\ call.result = Err("Failed to generate quotes.")
    /\ sessions = 0

\* The known materials a text names, and the numbers it contains
NamedIn(text) == {Materials[j] : j \in 1..Len(Materials)} \cap {text[i] : i \in 1..Len(text)}
NumbersAt(text) == {i \in 1..Len(text) : IsNumber(text[i])}

\* The place of a material in the agent's list
ListedAt(m) == CHOOSE j \in 1..Len(Materials) : Materials[j] = m

\* IntakeAgent.process, constructed without an LLM, has returned
FallbackReturned == ProcessReturned /\ call.stage = "intake" /\ ~llm

\* A failure to store the request: of the database inside the try, or of
\* get_session
StorageFailure(upd) == upd \in {Err("Database error: e"), Err("e")}

C16_OneStageAtATime ==
    /\ Cardinality(running) <= 1
    /\ running \subseteq {pc}
    /\ suspended \subseteq running
    /\ \A s \in running : \A i \in Steps : trace[i].stage # s

\* C16's case: the supplier's coroutine is suspended at its await, intake
\* having returned before it was entered.
C16_Witness ==
    /\ suspended = {"supplier"}
    /\ running = {"supplier"}
    /\ Len(trace) = 1
    /\ Returned(1, "intake_complete")

\* The runs that have started, and the workflow state of a run
Started == {r \in Requests : runs[r].ref # 0}
StateOf(r) == heap[runs[r].ref]

\* C17: concurrent runs each have a workflow state of their own; a step of one
\* run (a start, a stage invocation and its merge, a raise) leaves the state
\* of every other run as it was, and what a run's stage reads is that run's
\* state: the artisan_id intake returns, and the one in the run's state, is
\* the one of the run's own request.  In every interleaving.
C17_RunIsolation ==
    /\ [][\A r \in Started : runs'[r] = runs[r] => heap'[runs[r].ref] = heap[runs[r].ref]]_vars
    /\ [](\A r \in Started :
            /\ \A q \in Started : runs[q].ref = runs[r].ref => q = r
            /\ StateOf(r)["artisan_id"] = runs[r].input["artisan_id"]
            /\ Has(runs[r].last, "artisan_id") =>
                   runs[r].last["artisan_id"] = runs[r].input["artisan_id"])

\* C17's case: two runs for different artisans are under way at once, each
\* past its intake stage and before its supplier stage.
C17_Witness ==
    /\ runs[1].pc = "supplier"
    /\ runs[2].pc = "supplier"
    /\ runs[1].input["artisan_id"] # runs[2].input["artisan_id"]
    /\ StatusOf(StateOf(1)) = "intake_complete"
    /\ StatusOf(StateOf(2)) = "intake_complete"

\* The calls of process that have returned
DbReturned(p) == procs[p].pc = "returned" /\ procs[p].via = "process"

\* The state of call p has no value at key k (the key is absent, or the list
\* of quotes is empty)
Lacks(p, k) ==
    ~Has(procs[p].arg, k) \/ (k = "supplier_quotes" /\ procs[p].arg[k] = <<>>)

\* The upstream fields call p needs are not all in its state
UpstreamAbsent(p) ==
    CASE procs[p].stage = "supplier" -> Lacks(p, "request_id") \/ Lacks(p, "material_request")
      [] procs[p].stage = "commit"   -> Lacks(p, "supplier_quotes")
      [] procs[p].stage = "sales"    -> Lacks(p, "artisan_id") \/ Lacks(p, "order_details")
      [] procs[p].stage = "cash"     -> Lacks(p, "artisan_id") \/ Lacks(p, "order_id")
                                        \/ Lacks(p, "order_details")
      [] OTHER -> FALSE

\* The status process returns when the upstream fields are absent
AbsentStatus(stage) ==
    CASE stage = "supplier" -> "error"
      [] stage = "commit"   -> "error"
      [] stage = "sales"    -> "sales_skipped"
      [] stage = "cash"     -> "cash_skipped"

\* The calls that searched or wrote
Acted == {p \in Callers : procs[p].pc # "idle" /\ procs[p].via = "process" /\ ~UpstreamAbsent(p)}

\* C21: a call of SupplierAgent, CommitAgent, SalesAgent or CashAgent.process on
\* a state without the upstream fields it needs goes from the call straight
\* to its return (it is never inside the try that holds the session, so it
\* does not raise), returns the status of its case ("error", "error",
\* "sales_skipped", "cash_skipped"), writes no row, and every search made and
\* every order, store and ledger row in the tables is of a call that had its
\* fields.
C21_AbsenceIsData ==
    /\ \A p \in Callers :
         (procs[p].pc # "idle" /\ procs[p].via = "process" /\ UpstreamAbsent(p)) =>
            /\ procs[p].pc \in {"called", "returned"}
            /\ procs[p].made = NothingMade
            /\ procs[p].pc = "returned" =>
                 StatusOf(procs[p].result) = AbsentStatus(procs[p].stage)
    /\ db.searches <= Cardinality({p \in Acted : procs[p].stage = "supplier"})
    /\ \A i \in 1..Len(db.orders) : \E p \in Callers : i \in procs[p].made.orders /\ ~UpstreamAbsent(p)
    /\ \A i \in 1..Len(db.stores) : \E p \in Acted : i \in procs[p].made.stores
    /\ \A i \in 1..Len(db.ledger) : \E p \in Acted : i \in procs[p].made.ledger

\* C21 witness: a call of CashAgent.process without order_id has returned
\* "cash_skipped" while another call, with its fields, wrote a ledger entry.
C21_Witness ==
    \E p, q \in Callers :
       /\ DbReturned(p) /\ procs[p].stage = "cash" /\ Lacks(p, "order_id")
       /\ ~Lacks(p, "artisan_id") /\ ~Lacks(p, "order_details")
       /\ StatusOf(procs[p].result) = "cash_skipped"
       /\ DbReturned(q) /\ procs[q].made.ledger # {}

\* The calls of CommitAgent.process that returned "commit_complete"
Committed(p) ==
    /\ procs[p].stage = "commit" /\ procs[p].pc = "returned"
    /\ StatusOf(procs[p].result) = "commit_complete"

\* i is the first position of supplier_quotes with the least
\* total_price + delivery_charge
FirstCheapest(quotes, i) ==
    /\ \A j \in 1..Len(quotes) :
          quotes[i].total_price + quotes[i].delivery_charge
             <= quotes[j].total_price + quotes[j].delivery_charge
    /\ \A j \in 1..(i - 1) :
          quotes[j].total_price + quotes[j].delivery_charge
             > quotes[i].total_price + quotes[i].delivery_charge

\* C22: when CommitAgent.process returns "commit_complete", the returned
\* selected_quote is the first quote of supplier_quotes with the least
\* total_price + delivery_charge, the order it created has that quote's id as
\* quote_id, and order_details.total_amount is that quote's
\* total_price + delivery_charge.
C22_CheapestQuoteCommitted ==
    \A p \in Callers :
       Committed(p) =>
          \E i \in 1..Len(procs[p].arg.supplier_quotes) :
             LET quotes == procs[p].arg.supplier_quotes
                 res == procs[p].result
             IN /\ FirstCheapest(quotes, i)
                /\ res.selected_quote = quotes[i]
                /\ \E k \in 1..Len(db.orders) :
                      /\ db.orders[k].id = res.order_id
                      /\ k \in procs[p].made.orders
                      /\ db.orders[k].quote_id = quotes[i].id
                /\ res.order_details.total_amount
                      = quotes[i].total_price + quotes[i].delivery_charge

\* C22 witness: a call on two quotes of the same cost, the second listed
\* first, has returned "commit_complete".
C22_Witness ==
    \E p \in Callers :
       /\ Committed(p) /\ procs[p].via = "process"
       /\ procs[p].arg.supplier_quotes = <<Quote3, Quote2>>
       /\ procs[p].result.selected_quote = Quote3

\* Call p of SalesAgent.process, made for an artisan of the artisans table on a
\* state with order_details, returns in this step, and nothing outside the
\* program failed
SalesReturns(p) ==
    /\ procs[p].stage = "sales" /\ procs[p].via = "process"
    /\ procs[p].pc \in {"called", "page"} /\ procs'[p].pc = "returned"
    /\ ~procs'[p].fault
    /\ ~SalesNothingToDo(procs[p].arg)
    /\ procs[p].arg.artisan_id \in DOMAIN ArtisanRows

\* C23: a call of SalesAgent.process that finds a MicroStore of its artisan
\* returns "sales_skipped" with that store's store_url and leaves the table as
\* it is; a call that comes to its insert while its artisan has no store adds
\* exactly one MicroStore, of that artisan, and returns "sales_complete" with
\* its store_url.
C23_StoreReusedOrCreated ==
    [][\A p \in Callers :
          SalesReturns(p) =>
             LET mine == StoresOf(db.stores, procs[p].arg.artisan_id)
                 res == procs'[p].result
             IN /\ (procs[p].pc = "called" /\ mine # {}) =>
                      /\ StatusOf(res) = "sales_skipped"
                      /\ \E s \in mine : Get(res, "store_url", <<>>) = s.store_url
                      /\ db'.stores = db.stores
                /\ mine = {} =>
                      /\ StatusOf(res) = "sales_complete"
                      /\ Len(db'.stores) = Len(db.stores) + 1
                      /\ SubSeq(db'.stores, 1, Len(db.stores)) = db.stores
                      /\ db'.stores[Len(db'.stores)].artisan_id = procs[p].arg.artisan_id
                      /\ Get(res, "store_url", <<>>) = db'.stores[Len(db'.stores)].store_url
    ]_vars

\* Call p of CashAgent.process returns in this step
CashReturns(p) ==
    /\ procs[p].stage = "cash" /\ procs[p].via = "process"
    /\ procs[p].pc \in {"called", "balance"} /\ procs'[p].pc = "returned"

\* balance_after of the artisan's most recent entry, 0 when there is none
PreviousBalance(ledger, artisan_id) ==
    LET mine == {i \in 1..Len(ledger) : ledger[i].artisan_id = artisan_id}
    IN IF mine = {} THEN 0
       ELSE LET last == CHOOSE i \in mine : \A j \in mine : j <= i
            IN ledger[last].balance_after

\* No entry of the artisan was added between the read of call p and now: the
\* entry it read is still the artisan's most recent one
NotOvertaken(p) ==
    \A i \in 1..Len(db.ledger) :
       db.ledger[i].artisan_id = procs[p].arg.artisan_id => i <= procs[p].local.last_entry

SelectQuoteSucceeded(p) ==
    /\ procs[p].via = "select_quote" /\ procs[p].pc = "returned"
    /\ procs[p].response.status_code = 200

\* C25: when POST /api/select_quote answers with success, the Order it created
\* has the request's quote_id as quote_id, that quote is the one the call
\* marked selected, and the selected_quote in the answer is that quote.
C25_CallersQuoteCommitted ==
    \A p \in Callers :
       SelectQuoteSucceeded(p) =>
          /\ \E k \in procs[p].made.orders : db.orders[k].quote_id = procs[p].selection
          /\ procs[p].made.quotes = {procs[p].selection}
          /\ procs[p].response.data.selected_quote.id = procs[p].selection

\* C26: POST /api/agents/request answers "Workflow completed successfully" with
\* the final state only when the run's final status is not "error"; when the
\* final status is "error" it answers HTTP 500 with the error message of the
\* stage that failed as detail; when run raises it answers HTTP 500.
C26_ErrorAnswered ==
    \A r \in Requests :
       Answered(r) =>
          /\ Answer(r).status_code = 200 =>
                /\ runs[r].pc = "end"
                /\ StatusOf(heap[runs[r].ref]) # "error"
                /\ Answer(r).message = "Workflow completed successfully"
                /\ Answer(r).final_state = heap[runs[r].ref]
          /\ (runs[r].pc = "end" /\ StatusOf(heap[runs[r].ref]) = "error") =>
                /\ Answer(r).status_code = 500
                /\ Answer(r).detail = <<runs[r].last.error>>
          /\ runs[r].pc = "raised" => Answer(r).status_code = 500

\* The workflow state after the stage of the direct call returned: the state
\* it was called on with its update applied
AfterCall == ApplyWrites(ApplyWrites(EmptyChannels, call.arg), call.result)

\* The keys of the path map given to add_conditional_edges for each stage
PathKeys(stage) ==
    CASE stage = "intake"   -> {"supplier", "end"}
      [] stage = "supplier" -> {"commit", "end"}
      [] stage = "commit"   -> {"sales", "end"}
      [] stage = "sales"    -> {"cash", "end"}
      [] stage = "cash"     -> {"end"}

\* C27: for each stage and every update that stage's process returns, the
\* value should_continue gives for the state after that update is a key of
\* the stage's path map (intake: supplier/end, supplier: commit/end, commit:
\* sales/end, sales: cash/end, cash: end), so the edge out of the stage has a
\* target.
C27_RoutingTotal ==
    call.phase = "returned" =>
       /\ DOMAIN PathMap(call.stage) = PathKeys(call.stage)
       /\ should_continue(AfterCall) \in DOMAIN PathMap(call.stage)
       /\ Route(call.stage, AfterCall) # "raised"

\* C27 witness: CashAgent.process has returned "cash_skipped", which
\* should_continue does not name, and the edge out of cash has the target END.
C27_Witness ==
    /\ call.phase = "returned" /\ call.stage = "cash"
    /\ StatusOf(call.result) = "cash_skipped"
    /\ Route("cash", AfterCall) = "end"

\* C28: when CommitAgent.process has returned status "error", no Order row
\* that call inserted is in the orders table and no quote that call marked
\* selected is marked selected.
C28_CommitAtomic ==
    \A p \in Callers :
       (procs[p].stage = "commit" /\ procs[p].pc = "returned"
        /\ StatusOf(procs[p].result) = "error") =>
          /\ ~\E k \in 1..Len(db.orders) : db.orders[k].id \in procs[p].made.orders
          /\ procs[p].made.quotes \cap db.selected = {}

\* The rows of micro_stores of this artisan, by position
StoreRowsOf(artisan_id) == {i \in 1..Len(db.stores) : db.stores[i].artisan_id = artisan_id}

\* C29: whatever the interleaving of the reads and writes of the calls of
\* SalesAgent.process, the micro_stores table never holds more than one row of
\* the same artisan.
C29_OneStorePerArtisan ==
    \A a \in DOMAIN ArtisanRows : Cardinality(StoreRowsOf(a)) <= 1

\* C29 witness: two calls for the same artisan both found no store and went
\* on to insert; one inserted the store and returned "sales_complete", the
\* insert of the other was refused and it returned "error".
C29_Witness ==
    \E p, q \in Callers :
       /\ p # q
       /\ procs[p].stage = "sales" /\ procs[q].stage = "sales"
       /\ procs[p].arg = procs[q].arg
       /\ procs[p].pc = "returned" /\ procs[q].pc = "returned"
       /\ Has(procs[p].local, "store_url") /\ Has(procs[q].local, "store_url")
       /\ StatusOf(procs[p].result) = "sales_complete"
       /\ StatusOf(procs[q].result) = "error" /\ ~procs[q].fault
       /\ Cardinality(StoreRowsOf(procs[p].arg.artisan_id)) = 1

\* The sum of the amounts of the debit entries of the artisan among the first
\* n entries of the ledger
RECURSIVE DebitsOf(_, _)
DebitsOf(artisan_id, n) ==
    IF n = 0 THEN 0
    ELSE DebitsOf(artisan_id, n - 1)
         + (IF db.ledger[n].artisan_id = artisan_id /\ db.ledger[n].type = "debit"
            THEN db.ledger[n].amount ELSE 0)

\* Every call of CashAgent.process that was made has returned
AllCashCallsCompleted == \A p \in Callers : procs[p].pc \in {"idle", "returned"}

\* C30: once every call of CashAgent.process has returned, whatever the
\* interleaving of their reads and writes was, the balance_after of the
\* artisan's latest Ledger entry is minus the sum of the amounts of all the
\* artisan's debit entries.
C30_LedgerConsistent ==
    AllCashCallsCompleted =>
       \A a \in DOMAIN ArtisanRows :
          LET mine == {i \in 1..Len(db.ledger) : db.ledger[i].artisan_id = a}
          IN mine # {} =>
                db.ledger[CHOOSE i \in mine : \A j \in mine : j <= i].balance_after
                   = 0 - DebitsOf(a, Len(db.ledger))

============================================================================
